---- MODULE Spec2Model ----
(***************************************************************************)
(* latest_files_announce_evt.js: the scheduled event that announces the   *)
(* files added to the file base since the last run.                       *)
(*                                                                         *)
(* One run is the async.waterfall of loadOptions, readTemplates,           *)
(* findNewFiles and buildMessages.  Every external callback (fs.readFile,  *)
(* FileEntry.findFiles, FileEntry.load + AnsiPrep, persistMessage) is an   *)
(* action of its own; the clock and the uploads of other users are the     *)
(* environment.  Timestamps are integers (ticks of the clock); a file's    *)
(* fileName stands for its name, hashes, uploader and tags.                *)
(***************************************************************************)
EXTENDS Integers, Sequences, FiniteSets, TLC

\* ---------------------------------------------------------------- bounds
MaxTime == 2
MaxFiles == 3
MaxRuns == 3
MaxCap == 1
MaxFairRuns == 2

\* ------------------------------------------------------ program constants
DefaultMaxFilesPerArea == 20
DefaultAreaTagsRegEx == "^(?!uploads).*$"
DefaultSubjectFormat == "New files on {boardName}"
TEMPLATE_NAMES == <<"header", "areaHeader", "entry", "areaFooter", "footer">>

\* the board: its name and its file areas, in getSortedAvailableFileAreas order
BoardName == "board"
AvailableFileAreas == <<"games", "uploads", "utils">>

\* the stat is absent until the first setSystemStat
NoStat == 0
NoErr == "null"

\* --------------------------------------------------------------- helpers
Min(a, b) == IF a < b THEN a ELSE b

\* obj.k = v for every k of upd (assignment to the properties of a JS object)
Put(obj, upd) ==
    [k \in DOMAIN obj \cup DOMAIN upd |-> IF k \in DOMAIN upd THEN upd[k] ELSE obj[k]]

\* String.prototype.split(','): a string is the sequence of its tokens, the
\* comma a token of its own
RECURSIVE Split(_, _)
Split(s, cur) ==
    IF s = <<>> THEN <<cur>>
    ELSE IF Head(s) = "," THEN <<cur>> \o Split(Tail(s), <<>>)
    ELSE Split(Tail(s), Append(cur, Head(s)))

\* moment(ts).format(options.tsFormat): 'ddd, MMMM Do, YYYY' keeps the day
\* only, here two ticks long
FormatTs(ts) == (ts + 1) \div 2

\* stringFormat(template, formatObj): the text is decided by the template and
\* by the values formatObj holds when it is rendered
stringFormat(template, formatObj) == [tpl |-> template, ctx |-> formatObj]

\* area.areaTag.match(options.areaTagsRegEx)
MatchesRegEx(areaTag, regEx) ==
    IF regEx = DefaultAreaTagsRegEx THEN areaTag # "uploads" ELSE TRUE


\* ----------------------------------------------------------------- state
VARIABLES
    clock,          \* the wall clock, in ticks
    stat,           \* StatLog's system stat STAT_KEY_LAST_TS (NoStat: never set)
    catalog,        \* the file base: fileId -> [areaTag, uploadTimestamp, byte_size]
    messages,       \* the message base: what persistMessage has stored
    runNo,          \* how many times the scheduler has called the event
    args,           \* the args of the current call
    pc,             \* the waterfall task the current run is in
    options,        \* the options object of loadOptions
    tmplPending,    \* readTemplates: how many fs.readFile calls are still out
    tmplFailed,     \* readTemplates: async.map has already called back with an error
    lastTimestamp,  \* findNewFiles: the const lastTimestamp
    newTimestamp,   \* what this run passed to setSystemStat
    allAreas,       \* findNewFiles: the const allAreas
    scan,           \* findNewFiles: per area, the closure of the findFiles callback
    mapFailed,      \* findNewFiles: the outer async.map has already called back with an error
    formatObj,      \* buildMessages: the const formatObj
    msgBody,        \* buildMessages: the let msgBody
    delivIdx,       \* buildMessages: the areaTag async.eachSeries is at
    cbCount,        \* how many times cb of the current call has been called
    cbErr,          \* what cb was called with
    evlog,          \* the calls of the current run to StatLog, FileEntry and persistMessage, in order
    prevErr,        \* what cb of the call before this one was called with
    runs            \* one summary per finished run that got as far as findNewFiles

vars == <<clock, stat, catalog, messages, runNo, prevErr, args, pc, options, tmplPending,
          tmplFailed, lastTimestamp, newTimestamp, allAreas, scan, mapFailed,
          formatObj, msgBody, delivIdx, cbCount, cbErr, evlog, runs>>

runVars == <<args, options, tmplPending, tmplFailed, lastTimestamp, newTimestamp,
             allAreas, scan, mapFailed, formatObj, msgBody, delivIdx, evlog>>

EmptyObj == << >>

\* args as the scheduler passes them: a string is the sequence of its tokens
ArgChoices == { << >>,
                << <<"fsx_bot">> >>,
                << <<"fsx_bot", ",", "agn_ads">> >> }

\* what fs.readFile(optionsPath) can call back with
OptionsFiles ==
    {[err |-> "EACCES", data |-> "", maxFilesPerArea |-> 0],
     [err |-> "ENOENT", data |-> "", maxFilesPerArea |-> 0],
     [err |-> NoErr, data |-> "", maxFilesPerArea |-> 0],
     [err |-> NoErr, data |-> "malformed", maxFilesPerArea |-> 0]}
    \cup {[err |-> NoErr, data |-> "hjson", maxFilesPerArea |-> n] : n \in 1..MaxCap}

Init ==
    /\ clock = 1
    /\ stat = NoStat
    /\ catalog = << >>
    /\ messages = << >>
    /\ runNo = 0
    /\ prevErr = NoErr
    /\ args = << >>
    /\ pc = "idle"
    /\ options = EmptyObj
    /\ tmplPending = 0
    /\ tmplFailed = FALSE
    /\ lastTimestamp = NoStat
    /\ newTimestamp = NoStat
    /\ allAreas = << >>
    /\ scan = EmptyObj
    /\ mapFailed = FALSE
    /\ formatObj = EmptyObj
    /\ msgBody = << >>
    /\ delivIdx = 0
    /\ cbCount = 0
    /\ cbErr = NoErr
    /\ evlog = << >>
    /\ runs = << >>

\* ----------------------------------------------------------- environment
Tick ==
    /\ clock < MaxTime
    /\ clock' = clock + 1
    /\ UNCHANGED <<stat, catalog, messages, runNo, prevErr, pc, cbCount, cbErr, runs>>
    /\ UNCHANGED runVars

\* the byte size of the n-th file of the base: a sum of sizes tells which
\* files it is the sum of
RECURSIVE ByteSize(_)
ByteSize(n) == IF n <= 1 THEN 1 ELSE 2 * ByteSize(n - 1)

\* another node of the board adds a file to an area: upload_timestamp is now
Upload(areaTag) ==
    /\ Len(catalog) < MaxFiles
    /\ catalog' = Append(catalog, [areaTag |-> areaTag, uploadTimestamp |-> clock,
                                   byte_size |-> ByteSize(Len(catalog) + 1)])
    /\ UNCHANGED <<clock, stat, messages, runNo, prevErr, pc, cbCount, cbErr, runs>>
    /\ UNCHANGED runVars

\* FileEntry.findFiles({newerThanTimestamp, areaTag}): the fileIds of the area
\* with upload_timestamp > newerThanTimestamp, in the order of the file base
RECURSIVE findFiles(_, _, _)
findFiles(cat, filter, n) ==
    IF n = 0 THEN << >>
    ELSE LET r == findFiles(cat, filter, n - 1)
         IN  IF /\ cat[n].areaTag = filter.areaTag
                /\ cat[n].uploadTimestamp > filter.newerThanTimestamp
             THEN Append(r, n) ELSE r

\* --------------------------------------------------------------- the run
Stragglers ==
    \/ tmplPending # 0
    \/ \E a \in DOMAIN scan : scan[a].st = "querying" \/ scan[a].pending # {}

\* cb(err): the callback of the waterfall.  A run that has written the stat
\* leaves a summary: what it read, what it wrote, how many new files its
\* queries found and how it ended
Finish(err, last, wrote, found) ==
    /\ pc' = "done"
    /\ cbCount' = cbCount + 1
    /\ cbErr' = err
    /\ runs' = IF wrote = NoStat THEN runs
               ELSE Append(runs, [run |-> runNo, err |-> err, last |-> last,
                                  wrote |-> wrote, found |-> found])


\* latestFilesAnnounceEvent without the args.length check: the waterfall
\* starts whatever args holds
latestFilesAnnounceEvent_noCheck(a) ==
    /\ pc \in {"idle", "done"}
    /\ ~Stragglers
    /\ runNo < MaxRuns
    /\ runNo' = runNo + 1
    /\ prevErr' = cbErr
    /\ args' = a
    /\ options' = EmptyObj
    /\ tmplPending' = 0
    /\ tmplFailed' = FALSE
    /\ lastTimestamp' = NoStat
    /\ newTimestamp' = NoStat
    /\ allAreas' = << >>
    /\ scan' = EmptyObj
    /\ mapFailed' = FALSE
    /\ formatObj' = EmptyObj
    /\ msgBody' = << >>
    /\ delivIdx' = 0
    /\ evlog' = << >>
    /\ pc' = "loadOptions"
    /\ cbCount' = 0
    /\ cbErr' = NoErr
    /\ UNCHANGED <<clock, stat, catalog, messages, runs>>

\* exports.latestFilesAnnounceEvent(args, cb): the scheduler starts a run once
\* the previous one has called back and its callbacks are all in
latestFilesAnnounceEvent(a) ==
    /\ pc \in {"idle", "done"}
    /\ ~Stragglers
    /\ runNo < MaxRuns
    /\ runNo' = runNo + 1
    /\ prevErr' = cbErr
    /\ args' = a
    /\ options' = EmptyObj
    /\ tmplPending' = 0
    /\ tmplFailed' = FALSE
    /\ lastTimestamp' = NoStat
    /\ newTimestamp' = NoStat
    /\ allAreas' = << >>
    /\ scan' = EmptyObj
    /\ mapFailed' = FALSE
    /\ formatObj' = EmptyObj
    /\ msgBody' = << >>
    /\ delivIdx' = 0
    /\ evlog' = << >>
    /\ IF Len(a) < 1
       THEN /\ pc' = "done"
            /\ cbCount' = 1
            /\ cbErr' = "MissingParam"
            /\ UNCHANGED runs
       ELSE /\ pc' = "loadOptions"
            /\ cbCount' = 0
            /\ cbErr' = NoErr
            /\ UNCHANGED runs
    /\ UNCHANGED <<clock, stat, catalog, messages>>

\* hjson.parse(optionsData) followed by the defaults
ParsedOptions(file) ==
    [areaTagsRegEx |-> DefaultAreaTagsRegEx,
     maxFilesPerArea |-> IF file.maxFilesPerArea # 0 THEN file.maxFilesPerArea
                         ELSE DefaultMaxFilesPerArea,
     to |-> "All",
     from |-> "ENiGMA-Bot",
     nowTs |-> FormatTs(clock),
     subjectFormat |-> DefaultSubjectFormat]

\* loadOptions with the setSystemStat call moved to the first task of the
\* waterfall
loadOptions_setsStat(file) ==
    /\ pc = "loadOptions"
    /\ stat' = clock
    /\ IF file.err # NoErr /\ file.err # "ENOENT"
       THEN /\ Finish(file.err, NoStat, NoStat, 0)
            /\ UNCHANGED <<options, tmplPending>>
       ELSE IF file.data = "malformed"
       THEN /\ Finish("SyntaxError", NoStat, NoStat, 0)
            /\ UNCHANGED <<options, tmplPending>>
       ELSE /\ options' = ParsedOptions(file)
            /\ pc' = "readTemplates"
            /\ tmplPending' = Len(TEMPLATE_NAMES)
            /\ UNCHANGED <<cbCount, cbErr, runs>>
    /\ UNCHANGED <<clock, catalog, messages, runNo, prevErr, args, tmplFailed,
                   lastTimestamp, newTimestamp, allAreas, scan, mapFailed,
                   formatObj, msgBody, delivIdx, evlog>>

\* loadOptions: the callback of fs.readFile(optionsPath)
loadOptions(file) ==
    /\ pc = "loadOptions"
    /\ IF file.err # NoErr /\ file.err # "ENOENT"
       THEN /\ Finish(file.err, NoStat, NoStat, 0)
            /\ UNCHANGED <<options, tmplPending>>
       ELSE IF file.data = "malformed"
       THEN /\ Finish("SyntaxError", NoStat, NoStat, 0)
            /\ UNCHANGED <<options, tmplPending>>
       ELSE /\ options' = ParsedOptions(file)
            /\ pc' = "readTemplates"
            /\ tmplPending' = Len(TEMPLATE_NAMES)
            /\ UNCHANGED <<cbCount, cbErr, runs>>
    /\ UNCHANGED <<clock, stat, catalog, messages, runNo, prevErr, args, tmplFailed,
                   lastTimestamp, newTimestamp, allAreas, scan, mapFailed,
                   formatObj, msgBody, delivIdx, evlog>>

\* readTemplates: the callback of fs.readFile(templatePath) of one of the templates
readTemplates(err) ==
    /\ tmplPending > 0
    /\ tmplPending' = tmplPending - 1
    /\ IF tmplFailed
       THEN UNCHANGED <<pc, tmplFailed, cbCount, cbErr, runs>>
       ELSE IF err # NoErr
       THEN /\ tmplFailed' = TRUE
            /\ Finish("General", NoStat, NoStat, 0)
       ELSE IF tmplPending' = 0
       THEN /\ pc' = "findNewFiles"
            /\ UNCHANGED <<tmplFailed, cbCount, cbErr, runs>>
       ELSE UNCHANGED <<pc, tmplFailed, cbCount, cbErr, runs>>
    /\ UNCHANGED <<clock, stat, catalog, messages, runNo, prevErr, args, options,
                   lastTimestamp, newTimestamp, allAreas, scan, mapFailed,
                   formatObj, msgBody, delivIdx, evlog>>

\* getSortedAvailableFileAreas(...).filter(area => area.areaTag.match(...))
RECURSIVE FilterAreas(_, _)
FilterAreas(areas, regEx) ==
    IF areas = << >> THEN << >>
    ELSE IF MatchesRegEx(Head(areas), regEx)
         THEN <<Head(areas)>> \o FilterAreas(Tail(areas), regEx)
         ELSE FilterAreas(Tail(areas), regEx)

\* the filter with newerThanTimestamp taken from the stat as it is now, after
\* setSystemStat, and not from the const lastTimestamp
Querying_statNow(since) ==
    [st |-> "querying", newerThanTimestamp |-> clock, fileIds |-> << >>,
     pending |-> {}, files |-> EmptyObj, areaFileBytes |-> 0, remainingFiles |-> 0]

\* the closure of one area before its findFiles callback: the filter it
\* passes to FileEntry.findFiles and what its callbacks will fill in
Querying(since) ==
    [st |-> "querying", newerThanTimestamp |-> since, fileIds |-> << >>,
     pending |-> {}, files |-> EmptyObj, areaFileBytes |-> 0, remainingFiles |-> 0]

\* findNewFiles with the setSystemStat call left for after the scan: the area
\* queries go out while the stat still holds what was read
findNewFiles_scanFirst ==
    /\ pc = "findNewFiles"
    /\ lastTimestamp' = stat
    /\ IF lastTimestamp' = NoStat
       THEN /\ stat' = clock
            /\ newTimestamp' = clock
            /\ Finish("General", NoStat, clock, 0)
            /\ evlog' = evlog \o <<"getSystemStat", "setSystemStat">>
            /\ UNCHANGED <<options, allAreas, scan>>
       ELSE /\ UNCHANGED <<stat, newTimestamp>>
            /\ options' = Put(options, [sinceTs |-> FormatTs(lastTimestamp')])
            /\ allAreas' = FilterAreas(AvailableFileAreas, options.areaTagsRegEx)
            /\ scan' = [a \in {allAreas'[k] : k \in DOMAIN allAreas'} |->
                            Querying(lastTimestamp')]
            /\ evlog' = evlog \o <<"getSystemStat">>
                              \o [k \in DOMAIN allAreas' |-> "findFiles"]
            /\ pc' = IF allAreas' = << >> THEN "buildMessages" ELSE "scan"
            /\ UNCHANGED <<cbCount, cbErr, runs>>
    /\ UNCHANGED <<clock, catalog, messages, runNo, prevErr, args, tmplPending, tmplFailed,
                   mapFailed, formatObj, msgBody, delivIdx>>

\* findNewFiles with the setSystemStat call after the early return: a first
\* run leaves the stat unset
findNewFiles_returnFirst ==
    /\ pc = "findNewFiles"
    /\ lastTimestamp' = stat
    /\ IF lastTimestamp' = NoStat
       THEN /\ UNCHANGED <<stat, newTimestamp>>
            /\ Finish("General", NoStat, NoStat, 0)
            /\ evlog' = evlog \o <<"getSystemStat">>
            /\ UNCHANGED <<options, allAreas, scan>>
       ELSE /\ stat' = clock
            /\ newTimestamp' = clock
            /\ options' = Put(options, [sinceTs |-> FormatTs(lastTimestamp')])
            /\ allAreas' = FilterAreas(AvailableFileAreas, options.areaTagsRegEx)
            /\ scan' = [a \in {allAreas'[k] : k \in DOMAIN allAreas'} |->
                            Querying(lastTimestamp')]
            /\ evlog' = evlog \o <<"getSystemStat", "setSystemStat">>
                              \o [k \in DOMAIN allAreas' |-> "findFiles"]
            /\ pc' = IF allAreas' = << >> THEN "buildMessages" ELSE "scan"
            /\ UNCHANGED <<cbCount, cbErr, runs>>
    /\ UNCHANGED <<clock, catalog, messages, runNo, prevErr, args, tmplPending, tmplFailed,
                   mapFailed, formatObj, msgBody, delivIdx>>

\* findNewFiles, up to the FileEntry.findFiles call of every area
findNewFiles ==
    /\ pc = "findNewFiles"
    /\ lastTimestamp' = stat
    /\ stat' = clock
    /\ newTimestamp' = clock
    /\ IF lastTimestamp' = NoStat
       THEN /\ Finish("General", NoStat, clock, 0)
            /\ evlog' = evlog \o <<"getSystemStat", "setSystemStat">>
            /\ UNCHANGED <<options, allAreas, scan>>
       ELSE /\ options' = Put(options, [sinceTs |-> FormatTs(lastTimestamp')])
            /\ allAreas' = FilterAreas(AvailableFileAreas, options.areaTagsRegEx)
            /\ scan' = [a \in {allAreas'[k] : k \in DOMAIN allAreas'} |->
                            Querying(lastTimestamp')]
            /\ evlog' = evlog \o <<"getSystemStat", "setSystemStat">>
                              \o [k \in DOMAIN allAreas' |-> "findFiles"]
            /\ pc' = IF allAreas' = << >> THEN "buildMessages" ELSE "scan"
            /\ UNCHANGED <<cbCount, cbErr, runs>>
    /\ UNCHANGED <<clock, catalog, messages, runNo, prevErr, args, tmplPending, tmplFailed,
                   mapFailed, formatObj, msgBody, delivIdx>>


\* how many fileIds the findFiles callbacks of the areas have been given
RECURSIVE Found(_, _)
Found(sc, areas) ==
    IF areas = << >> THEN 0
    ELSE Len(sc[Head(areas)].fileIds) + Found(sc, Tail(areas))

\* the outer async.map with the error of an area dropped: the areas that
\* came back go on to buildMessages
NextArea_partial(err, scanAfter) ==
    IF mapFailed
    THEN UNCHANGED <<pc, mapFailed, cbCount, cbErr, runs>>
    ELSE IF \A a \in DOMAIN scanAfter : scanAfter[a].st \in {"done", "failed"}
    THEN /\ pc' = "buildMessages"
         /\ UNCHANGED <<mapFailed, cbCount, cbErr, runs>>
    ELSE UNCHANGED <<pc, mapFailed, cbCount, cbErr, runs>>

\* the outer async.map without the guard that makes its callback fire once:
\* every area that fails calls back
NextArea_everyError(err, scanAfter) ==
    IF err # NoErr
    THEN /\ mapFailed' = TRUE
         /\ Finish(err, lastTimestamp, newTimestamp, Found(scanAfter, allAreas))
    ELSE IF mapFailed
    THEN UNCHANGED <<pc, mapFailed, cbCount, cbErr, runs>>
    ELSE IF \A a \in DOMAIN scanAfter : scanAfter[a].st = "done"
    THEN /\ pc' = "buildMessages"
         /\ UNCHANGED <<mapFailed, cbCount, cbErr, runs>>
    ELSE UNCHANGED <<pc, mapFailed, cbCount, cbErr, runs>>

\* the outer async.map of findNewFiles gets nextArea(err) or nextArea(null, ...)
\* from an area, whose closures are then scanAfter
NextArea(err, scanAfter) ==
    IF mapFailed
    THEN UNCHANGED <<pc, mapFailed, cbCount, cbErr, runs>>
    ELSE IF err # NoErr
    THEN /\ mapFailed' = TRUE
         /\ Finish(err, lastTimestamp, newTimestamp, Found(scanAfter, allAreas))
    ELSE IF \A a \in DOMAIN scanAfter : scanAfter[a].st = "done"
    THEN /\ pc' = "buildMessages"
         /\ UNCHANGED <<mapFailed, cbCount, cbErr, runs>>
    ELSE UNCHANGED <<pc, mapFailed, cbCount, cbErr, runs>>

\* fileIds.length > options.maxFilesPerArea ? fileIds.length : 0
RemainingFiles_all(fileIds, maxFilesPerArea) ==
    IF Len(fileIds) > maxFilesPerArea THEN Len(fileIds) ELSE 0

\* fileIds.length > options.maxFilesPerArea ? fileIds.length - options.maxFilesPerArea : 0
RemainingFiles(fileIds, maxFilesPerArea) ==
    IF Len(fileIds) > maxFilesPerArea THEN Len(fileIds) - maxFilesPerArea ELSE 0

\* fileIds.slice(1, options.maxFilesPerArea): the first fileId is skipped
Slice_fromOne(fileIds, maxFilesPerArea) ==
    SubSeq(fileIds, 2, Min(maxFilesPerArea, Len(fileIds)))

\* fileIds.slice(0, options.maxFilesPerArea)
Slice(fileIds, maxFilesPerArea) ==
    SubSeq(fileIds, 1, Min(maxFilesPerArea, Len(fileIds)))

\* the callback of FileEntry.findFiles for area a
findFilesDone(a, err) ==
    /\ a \in DOMAIN scan
    /\ scan[a].st = "querying"
    /\ LET fileIds == findFiles(catalog,
                         [newerThanTimestamp |-> scan[a].newerThanTimestamp,
                          areaTag |-> a], Len(catalog))
           toLoad == Slice(fileIds, options.maxFilesPerArea)
           after == IF err # NoErr
                    THEN [scan[a] EXCEPT !.st = "failed"]
                    ELSE [scan[a] EXCEPT
                            !.st = IF toLoad = << >> THEN "done" ELSE "loading",
                            !.fileIds = fileIds,
                            !.pending = DOMAIN toLoad,
                            !.remainingFiles =
                                RemainingFiles(fileIds, options.maxFilesPerArea)]
       IN  /\ scan' = [scan EXCEPT ![a] = after]
           /\ evlog' = IF err # NoErr THEN evlog
                       ELSE evlog \o [k \in DOMAIN toLoad |-> "load"]
           /\ IF err # NoErr THEN NextArea("CatalogError", scan')
              ELSE IF toLoad = << >> THEN NextArea(NoErr, scan')
              ELSE UNCHANGED <<pc, mapFailed, cbCount, cbErr, runs>>
    /\ UNCHANGED <<clock, stat, catalog, messages, runNo, prevErr, args, options,
                   tmplPending, tmplFailed, lastTimestamp, newTimestamp, allAreas,
                   formatObj, msgBody, delivIdx>>

\* AnsiPrep(fileInfo.desc, {cols, forceLineTerm, asciiMode, fillLines, indent})
AnsiPrep(desc) == <<"prepped", desc>>

\* what fileInfo.load(fileId) fills in, with the desc AnsiPrep yields
FileInfo(fileId) ==
    [fileId |-> fileId,
     fileName |-> fileId,
     areaTag |-> catalog[fileId].areaTag,
     uploadTimestamp |-> catalog[fileId].uploadTimestamp,
     byte_size |-> catalog[fileId].byte_size,
     desc |-> AnsiPrep("desc")]

\* the load callback with areaFileBytes = fileInfo.meta.byte_size: the file
\* loaded last decides
loadDone_lastWins(a, i, err) ==
    /\ a \in DOMAIN scan
    /\ i \in scan[a].pending
    /\ LET cur == scan[a]
           fileInfo == FileInfo(cur.fileIds[i])
           after ==
             IF err # NoErr
             THEN [cur EXCEPT !.pending = @ \ {i}, !.st = "failed"]
             ELSE [cur EXCEPT
                     !.pending = @ \ {i},
                     !.areaFileBytes = fileInfo.byte_size,
                     !.files = Put(@, [k \in {i} |-> fileInfo]),
                     !.st = IF @ = "loading" /\ cur.pending = {i}
                            THEN "done" ELSE @]
       IN  /\ scan' = [scan EXCEPT ![a] = after]
           /\ IF cur.st # "loading"
              THEN UNCHANGED <<pc, mapFailed, cbCount, cbErr, runs>>
              ELSE IF err # NoErr THEN NextArea("LoadError", scan')
              ELSE IF after.st = "done" THEN NextArea(NoErr, scan')
              ELSE UNCHANGED <<pc, mapFailed, cbCount, cbErr, runs>>
    /\ UNCHANGED <<clock, stat, catalog, messages, runNo, prevErr, args, options,
                   tmplPending, tmplFailed, lastTimestamp, newTimestamp, allAreas,
                   formatObj, msgBody, delivIdx, evlog>>

\* the callback of fileInfo.load for the i-th fileId of area a, and of the
\* AnsiPrep it calls
loadDone(a, i, err) ==
    /\ a \in DOMAIN scan
    /\ i \in scan[a].pending
    /\ LET cur == scan[a]
           fileInfo == FileInfo(cur.fileIds[i])
           after ==
             IF err # NoErr
             THEN [cur EXCEPT !.pending = @ \ {i}, !.st = "failed"]
             ELSE [cur EXCEPT
                     !.pending = @ \ {i},
                     !.areaFileBytes = @ + fileInfo.byte_size,
                     !.files = Put(@, [k \in {i} |-> fileInfo]),
                     !.st = IF @ = "loading" /\ cur.pending = {i}
                            THEN "done" ELSE @]
       IN  /\ scan' = [scan EXCEPT ![a] = after]
           /\ IF cur.st # "loading"
              THEN UNCHANGED <<pc, mapFailed, cbCount, cbErr, runs>>
              ELSE IF err # NoErr THEN NextArea("LoadError", scan')
              ELSE IF after.st = "done" THEN NextArea(NoErr, scan')
              ELSE UNCHANGED <<pc, mapFailed, cbCount, cbErr, runs>>
    /\ UNCHANGED <<clock, stat, catalog, messages, runNo, prevErr, args, options,
                   tmplPending, tmplFailed, lastTimestamp, newTimestamp, allAreas,
                   formatObj, msgBody, delivIdx, evlog>>


\* areaFiles.reverse().forEach(...): the entry of the last file comes first
RECURSIVE RenderEntries_lastFirst(_, _)
RenderEntries_lastFirst(r, areaFiles) ==
    IF areaFiles = << >> THEN r
    ELSE LET fileInfo == areaFiles[Len(areaFiles)]
             fo == Put(r.formatObj,
                       [fileName |-> fileInfo.fileName,
                        fileSize |-> fileInfo.byte_size,
                        fileDesc |-> fileInfo.desc,
                        fileUploadTs |-> fileInfo.uploadTimestamp])
         IN  RenderEntries_lastFirst(
                 [formatObj |-> fo,
                  msgBody |-> Append(r.msgBody, stringFormat("entry", fo))],
                 SubSeq(areaFiles, 1, Len(areaFiles) - 1))

\* ------------------------------------------------------------ buildMessages
\* areaFiles.forEach(fileInfo => ...): r is [formatObj, msgBody]
RECURSIVE RenderEntries(_, _)
RenderEntries(r, areaFiles) ==
    IF areaFiles = << >> THEN r
    ELSE LET fileInfo == Head(areaFiles)
             fo == Put(r.formatObj,
                       [fileName |-> fileInfo.fileName,
                        fileSize |-> fileInfo.byte_size,
                        fileDesc |-> fileInfo.desc,
                        fileUploadTs |-> fileInfo.uploadTimestamp])
         IN  RenderEntries([formatObj |-> fo,
                            msgBody |-> Append(r.msgBody, stringFormat("entry", fo))],
                           Tail(areaFiles))

\* the body of the forEach with the totals assigned (=) and not added to (+=)
RenderArea_assign(r, areaInfo) ==
    LET areaFiles == areaInfo.files
    IN  IF 0 = Len(areaFiles) THEN r
        ELSE LET fo == Put(r.formatObj,
                           [areaFileCount |-> Len(areaFiles),
                            areaRemainingFiles |-> areaInfo.remainingFiles,
                            areaFileBytes |-> areaInfo.areaFileBytes,
                            totalFileCount |-> Len(areaFiles),
                            totalFileBytes |-> areaInfo.areaFileBytes,
                            areaName |-> areaInfo.areaInfo])
                 hdr == [formatObj |-> fo,
                         msgBody |-> Append(r.msgBody, stringFormat("areaHeader", fo))]
                 ent == RenderEntries(hdr, areaFiles)
             IN  [formatObj |-> ent.formatObj,
                  msgBody |-> Append(ent.msgBody,
                                     stringFormat("areaFooter", ent.formatObj))]

\* the body of the forEach without the early return for an empty files array
RenderArea_noSkip(r, areaInfo) ==
    LET areaFiles == areaInfo.files
        fo == Put(r.formatObj,
                  [areaFileCount |-> Len(areaFiles),
                   areaRemainingFiles |-> areaInfo.remainingFiles,
                   areaFileBytes |-> areaInfo.areaFileBytes,
                   totalFileCount |-> r.formatObj.totalFileCount + Len(areaFiles),
                   totalFileBytes |-> r.formatObj.totalFileBytes
                                      + areaInfo.areaFileBytes,
                   areaName |-> areaInfo.areaInfo])
        hdr == [formatObj |-> fo,
                msgBody |-> Append(r.msgBody, stringFormat("areaHeader", fo))]
        ent == RenderEntries(hdr, areaFiles)
    IN  [formatObj |-> ent.formatObj,
         msgBody |-> Append(ent.msgBody, stringFormat("areaFooter", ent.formatObj))]

\* the forEach over areaFiles with the totals added to per entry
RECURSIVE RenderEntries_addTotals(_, _)
RenderEntries_addTotals(r, areaFiles) ==
    IF areaFiles = << >> THEN r
    ELSE LET fileInfo == Head(areaFiles)
             fo == Put(r.formatObj,
                       [fileName |-> fileInfo.fileName,
                        fileSize |-> fileInfo.byte_size,
                        fileDesc |-> fileInfo.desc,
                        fileUploadTs |-> fileInfo.uploadTimestamp,
                        totalFileCount |-> r.formatObj.totalFileCount + 1,
                        totalFileBytes |-> r.formatObj.totalFileBytes
                                           + fileInfo.byte_size])
         IN  RenderEntries_addTotals(
                 [formatObj |-> fo,
                  msgBody |-> Append(r.msgBody, stringFormat("entry", fo))],
                 Tail(areaFiles))

\* the body of the forEach with the totals added to per entry, not per area
RenderArea_perEntry(r, areaInfo) ==
    LET areaFiles == areaInfo.files
    IN  IF 0 = Len(areaFiles) THEN r
        ELSE LET fo == Put(r.formatObj,
                           [areaFileCount |-> Len(areaFiles),
                            areaRemainingFiles |-> areaInfo.remainingFiles,
                            areaFileBytes |-> areaInfo.areaFileBytes,
                            areaName |-> areaInfo.areaInfo])
                 hdr == [formatObj |-> fo,
                         msgBody |-> Append(r.msgBody, stringFormat("areaHeader", fo))]
                 ent == RenderEntries_addTotals(hdr, areaFiles)
             IN  [formatObj |-> ent.formatObj,
                  msgBody |-> Append(ent.msgBody,
                                     stringFormat("areaFooter", ent.formatObj))]

\* the body of allFileInfos.forEach(areaInfo => ...)
RenderArea(r, areaInfo) ==
    LET areaFiles == areaInfo.files
    IN  IF 0 = Len(areaFiles) THEN r
        ELSE LET fo == Put(r.formatObj,
                           [areaFileCount |-> Len(areaFiles),
                            areaRemainingFiles |-> areaInfo.remainingFiles,
                            areaFileBytes |-> areaInfo.areaFileBytes,
                            totalFileCount |-> r.formatObj.totalFileCount + Len(areaFiles),
                            totalFileBytes |-> r.formatObj.totalFileBytes
                                               + areaInfo.areaFileBytes,
                            areaName |-> areaInfo.areaInfo])
                 hdr == [formatObj |-> fo,
                         msgBody |-> Append(r.msgBody, stringFormat("areaHeader", fo))]
                 ent == RenderEntries(hdr, areaFiles)
             IN  [formatObj |-> ent.formatObj,
                  msgBody |-> Append(ent.msgBody,
                                     stringFormat("areaFooter", ent.formatObj))]

RECURSIVE RenderAreas(_, _)
RenderAreas(r, allFileInfos) ==
    IF allFileInfos = << >> THEN r
    ELSE RenderAreas(RenderArea(r, Head(allFileInfos)), Tail(allFileInfos))

\* header, the areas, footer: the formatObj and the msgBody buildMessages ends with
Render(opts, allFileInfos) ==
    LET fo0 == [boardName |-> BoardName,
                nowTs |-> opts.nowTs,
                sinceTs |-> opts.sinceTs,
                totalFileCount |-> 0,
                totalFileBytes |-> 0]
        hdr == [formatObj |-> fo0, msgBody |-> <<stringFormat("header", fo0)>>]
        mid == RenderAreas(hdr, allFileInfos)
    IN  [formatObj |-> mid.formatObj,
         msgBody |-> Append(mid.msgBody, stringFormat("footer", mid.formatObj))]

\* allAreasFiles: the results of the outer async.map, in the order of allAreas
AllAreasFiles ==
    [k \in DOMAIN allAreas |->
        [areaInfo |-> allAreas[k],
         files |-> scan[allAreas[k]].files,
         areaFileBytes |-> scan[allAreas[k]].areaFileBytes,
         remainingFiles |-> scan[allAreas[k]].remainingFiles]]

\* [ args[0] ]: the argument is taken for one areaTag
AreaTags_whole == <<args[1]>>

\* args[0].split(',')
AreaTags == Split(args[1], << >>)

\* new Message({...}) for the areaTag eachSeries is at
NewMessage(areaTag) ==
    [run |-> runNo,
     areaTag |-> areaTag,
     toUserName |-> options.to,
     fromUserName |-> options.from,
     subject |-> stringFormat(options.subjectFormat, formatObj),
     message |-> msgBody]

\* if(formatObj.totalFileCount >= 0): a report without entries is delivered too
HasFiles_orNone(fo) == fo.totalFileCount >= 0

\* if(formatObj.totalFileCount > 0)
HasFiles(fo) == fo.totalFileCount > 0

\* buildMessages, up to the first persistMessage call
buildMessages ==
    /\ pc = "buildMessages"
    /\ LET r == Render(options, AllAreasFiles)
       IN  /\ formatObj' = r.formatObj
           /\ msgBody' = r.msgBody
           /\ IF HasFiles(r.formatObj)
              THEN /\ pc' = "deliver"
                   /\ delivIdx' = 1
                   /\ evlog' = Append(evlog, "persistMessage")
                   /\ UNCHANGED <<cbCount, cbErr, runs>>
              ELSE /\ Finish(NoErr, lastTimestamp, newTimestamp, Found(scan, allAreas))
                   /\ UNCHANGED <<delivIdx, evlog>>
    /\ UNCHANGED <<clock, stat, catalog, messages, runNo, prevErr, args, options,
                   tmplPending, tmplFailed, lastTimestamp, newTimestamp, allAreas,
                   scan, mapFailed>>

\* persistDone with an eachSeries that goes on to the next areaTag after an
\* error and calls back with the error of the last one
persistDone_goOn(err) ==
    /\ pc = "deliver"
    /\ messages' = IF err # NoErr THEN messages
                   ELSE Append(messages, NewMessage(AreaTags[delivIdx]))
    /\ IF delivIdx < Len(AreaTags)
       THEN /\ delivIdx' = delivIdx + 1
            /\ evlog' = Append(evlog, "persistMessage")
            /\ UNCHANGED <<pc, cbCount, cbErr, runs>>
       ELSE /\ Finish(err, lastTimestamp, newTimestamp, Found(scan, allAreas))
            /\ UNCHANGED <<delivIdx, evlog>>
    /\ UNCHANGED <<clock, stat, catalog, runNo, prevErr, args, options, tmplPending,
                   tmplFailed, lastTimestamp, newTimestamp, allAreas, scan,
                   mapFailed, formatObj, msgBody>>

\* persistDone with an error handler that puts the stat back to what the run
\* read
persistDone_rollback(err) ==
    /\ pc = "deliver"
    /\ IF err # NoErr
       THEN /\ Finish(err, lastTimestamp, newTimestamp, Found(scan, allAreas))
            /\ stat' = lastTimestamp
            /\ UNCHANGED <<messages, delivIdx, evlog>>
       ELSE /\ messages' = Append(messages, NewMessage(AreaTags[delivIdx]))
            /\ UNCHANGED stat
            /\ IF delivIdx < Len(AreaTags)
               THEN /\ delivIdx' = delivIdx + 1
                    /\ evlog' = Append(evlog, "persistMessage")
                    /\ UNCHANGED <<pc, cbCount, cbErr, runs>>
               ELSE /\ Finish(NoErr, lastTimestamp, newTimestamp, Found(scan, allAreas))
                    /\ UNCHANGED <<delivIdx, evlog>>
    /\ UNCHANGED <<clock, catalog, runNo, prevErr, args, options, tmplPending,
                   tmplFailed, lastTimestamp, newTimestamp, allAreas, scan,
                   mapFailed, formatObj, msgBody>>

\* the callback of persistMessage(msg, next) for areaTags[delivIdx]
persistDone(err) ==
    /\ pc = "deliver"
    /\ IF err # NoErr
       THEN /\ Finish(err, lastTimestamp, newTimestamp, Found(scan, allAreas))
            /\ UNCHANGED <<messages, delivIdx, evlog>>
       ELSE /\ messages' = Append(messages, NewMessage(AreaTags[delivIdx]))
            /\ IF delivIdx < Len(AreaTags)
               THEN /\ delivIdx' = delivIdx + 1
                    /\ evlog' = Append(evlog, "persistMessage")
                    /\ UNCHANGED <<pc, cbCount, cbErr, runs>>
               ELSE /\ Finish(NoErr, lastTimestamp, newTimestamp, Found(scan, allAreas))
                    /\ UNCHANGED <<delivIdx, evlog>>
    /\ UNCHANGED <<clock, stat, catalog, runNo, prevErr, args, options, tmplPending,
                   tmplFailed, lastTimestamp, newTimestamp, allAreas, scan,
                   mapFailed, formatObj, msgBody>>

\* ------------------------------------------------------------------ Next
Next ==
    \/ Tick
    \/ \E areaTag \in {AvailableFileAreas[k] : k \in DOMAIN AvailableFileAreas} :
          Upload(areaTag)
    \/ \E a \in ArgChoices : latestFilesAnnounceEvent(a)
    \/ \E file \in OptionsFiles : loadOptions(file)
    \/ \E err \in {NoErr, "ENOENT"} : readTemplates(err)
    \/ findNewFiles
    \/ \E a \in DOMAIN scan, err \in {NoErr, "CatalogError"} : findFilesDone(a, err)
    \/ \E a \in DOMAIN scan, i \in 1..MaxFiles, err \in {NoErr, "LoadError"} :
          loadDone(a, i, err)
    \/ buildMessages
    \/ \E err \in {NoErr, "PersistError"} : persistDone(err)

Spec == Init /\ [][Next]_vars


\* ================================================================ claims
\* the fileIds a rendered body has an entry block for
ReportedFiles(body) ==
    {body[k].ctx.fileName : k \in {j \in DOMAIN body : body[j].tpl = "entry"}}

\* the messages the run numbered r has persisted
MessagesOf(r) == {k \in DOMAIN messages : messages[k].run = r}

\* the run has read the stat and found a checkpoint
CheckpointRead == evlog # << >> /\ lastTimestamp # NoStat

\* ------------------------------------------------------------------- C1
C1_Order ==
    /\ evlog # << >> =>
          /\ Len(evlog) >= 2
          /\ evlog[1] = "getSystemStat"
          /\ evlog[2] = "setSystemStat"
          /\ stat = newTimestamp
          /\ \A k \in DOMAIN evlog :
                evlog[k] \in {"findFiles", "load", "persistMessage"} <=> k > 2
    /\ (scan # EmptyObj \/ MessagesOf(runNo) # {}) => evlog # << >>

C1_Write ==
    (evlog = << >> /\ evlog' # << >>) => (lastTimestamp' = stat /\ stat' = clock)

\* C1: a run that finds a checkpoint overwrites it with the current time right
\* after reading it: the setSystemStat call directly follows the
\* getSystemStat call, every findFiles, load and persistMessage call of the
\* run comes after both, and from the first query on the stat holds the
\* time this run wrote.
C1_CheckpointBeforeScan == [] C1_Order /\ [][C1_Write]_vars

\* a run that found a checkpoint, wrote a later one and has delivered
C1_Witness ==
    /\ pc = "done"
    /\ CheckpointRead
    /\ newTimestamp > lastTimestamp
    /\ MessagesOf(runNo) # {}

\* ------------------------------------------------------------------- C2
\* the run got to findNewFiles (its arguments, options and templates were
\* valid) and found no checkpoint
FirstRun == evlog # << >> /\ lastTimestamp = NoStat

C2_Bootstrap ==
    FirstRun =>
        /\ pc = "done"
        /\ cbCount = 1
        /\ cbErr = "General"
        /\ MessagesOf(runNo) = {}
        /\ scan = EmptyObj
        /\ \A k \in DOMAIN evlog : evlog[k] # "findFiles"
        /\ stat # NoStat
        /\ stat <= clock

C2_NextRunFinds ==
    /\ \A k \in DOMAIN runs :
          /\ k = 1 => runs[k].last = NoStat
          /\ k > 1 => runs[k].last = runs[k - 1].wrote /\ runs[k].last # NoStat
    /\ (runs # << >> /\ evlog # << >> /\ pc # "done") => lastTimestamp # NoStat

C2_Write == FirstRun' /\ ~FirstRun => stat' = clock

\* C2: a run that finds no checkpoint persists no message, queries no area,
\* calls back once with an error and leaves the checkpoint at the current
\* time; every later run that reads the checkpoint finds the one the run
\* before it wrote.
C2_FirstRunBootstrap == [] (C2_Bootstrap /\ C2_NextRunFinds) /\ [][C2_Write]_vars

\* the first run has bootstrapped and a later run has read its checkpoint
C2_Witness ==
    /\ Len(runs) >= 1
    /\ runs[1].last = NoStat
    /\ runNo > runs[1].run
    /\ CheckpointRead
    /\ lastTimestamp = runs[1].wrote


\* ------------------------------------------------------------------- C3
\* C3: no file has an entry in the messages of two different runs.
C3_NeverDoubleAnnounce ==
    \A i, j \in DOMAIN messages :
        messages[i].run # messages[j].run =>
            ReportedFiles(messages[i].message) \cap ReportedFiles(messages[j].message) = {}

\* ------------------------------------------------------------------- C4
\* C4: every file with an entry in the report of the run has an upload
\* timestamp no later than the checkpoint the run wrote.
C4_UpperBound ==
    CheckpointRead =>
        /\ \A k \in DOMAIN msgBody :
              msgBody[k].tpl = "entry" => msgBody[k].ctx.fileUploadTs <= newTimestamp
        /\ \A a \in DOMAIN scan : \A i \in DOMAIN scan[a].files :
              scan[a].files[i].uploadTimestamp <= newTimestamp

\* ------------------------------------------------------------------- C5
\* C5: every area query of a run asks for the files newer than the
\* checkpoint the run read, and no file uploaded at or before that checkpoint
\* is found, loaded, rendered or delivered by the run.
C5_LowerBound ==
    CheckpointRead =>
        /\ \A a \in DOMAIN scan :
              /\ scan[a].newerThanTimestamp = lastTimestamp
              /\ \A i \in DOMAIN scan[a].fileIds :
                    catalog[scan[a].fileIds[i]].uploadTimestamp > lastTimestamp
              /\ \A i \in DOMAIN scan[a].files :
                    scan[a].files[i].uploadTimestamp > lastTimestamp
        /\ \A f \in DOMAIN catalog :
              catalog[f].uploadTimestamp <= lastTimestamp =>
                  /\ f \notin ReportedFiles(msgBody)
                  /\ \A k \in MessagesOf(runNo) :
                        f \notin ReportedFiles(messages[k].message)

\* a run whose checkpoints differ has delivered a report while the base holds
\* a file of an included area uploaded at the old checkpoint
C5_Witness ==
    /\ pc = "done"
    /\ CheckpointRead
    /\ newTimestamp > lastTimestamp
    /\ MessagesOf(runNo) # {}
    /\ \E f \in DOMAIN catalog :
          /\ catalog[f].uploadTimestamp = lastTimestamp
          /\ catalog[f].areaTag \in DOMAIN scan


\* ------------------------------------------------------------------- C6
\* the run has called back without an error after reading a checkpoint
RunSucceeded == pc = "done" /\ cbErr = NoErr /\ CheckpointRead

InWindow(ts) == lastTimestamp < ts /\ ts <= newTimestamp

Delivered(f) ==
    /\ MessagesOf(runNo) # {}
    /\ \A k \in MessagesOf(runNo) : f \in ReportedFiles(messages[k].message)

\* C6 as stated: every file of the window (old, new] that the query of an
\* included area found is in the report the run delivers.
C6_AllOfWindowDelivered ==
    RunSucceeded =>
        \A a \in DOMAIN scan : \A i \in DOMAIN scan[a].fileIds :
            InWindow(catalog[scan[a].fileIds[i]].uploadTimestamp)
                => Delivered(scan[a].fileIds[i])

\* C6, amended: in a run that succeeds, the areas queried are the included
\* areas, the query of an area yields the files of the area uploaded after the
\* old checkpoint that were in the base when it ran, and every yielded file of
\* the window (old, new] that is among the first maxFilesPerArea of its area
\* is in every message the run delivers.
C6_WindowDeliveredUpToCap ==
    RunSucceeded =>
        /\ DOMAIN scan = {AvailableFileAreas[k] : k \in
                            {j \in DOMAIN AvailableFileAreas :
                               AvailableFileAreas[j] # "uploads"}}
        /\ \A a \in DOMAIN scan :
              /\ \E n \in 0..Len(catalog) :
                    scan[a].fileIds =
                        findFiles(catalog, [newerThanTimestamp |-> lastTimestamp,
                                            areaTag |-> a], n)
              /\ \A i \in DOMAIN scan[a].fileIds :
                    (i <= options.maxFilesPerArea
                       /\ InWindow(catalog[scan[a].fileIds[i]].uploadTimestamp))
                        => Delivered(scan[a].fileIds[i])

\* a run has delivered the first file of the window of an area and left out
\* the second, which the cap cut off
C6_Witness ==
    /\ RunSucceeded
    /\ \E a \in DOMAIN scan :
          /\ Len(scan[a].fileIds) > options.maxFilesPerArea
          /\ \A i \in DOMAIN scan[a].fileIds :
                InWindow(catalog[scan[a].fileIds[i]].uploadTimestamp)
          /\ Delivered(scan[a].fileIds[1])
          /\ ~Delivered(scan[a].fileIds[2])

\* ------------------------------------------------------------------- C7
\* every area query of the run has come back, and none found a file
NothingNew ==
    /\ CheckpointRead
    /\ scan # EmptyObj
    /\ \A a \in DOMAIN scan : scan[a].st = "done" /\ scan[a].fileIds = << >>

EmptyRun(r) == r.last # NoStat /\ r.err = NoErr /\ r.found = 0

\* the footer of a rendered body
Footer(body) == body[Len(body)]

\* C7: a run whose queries find nothing new persists no message, calls back
\* once without an error and leaves the checkpoint at the time it wrote, which
\* is not before the one it read and is the one the next run reads; and every
\* message persisted has a total included file count above 0.
C7_EmptyRun ==
    /\ NothingNew =>
          /\ pc \in {"buildMessages", "done"}
          /\ MessagesOf(runNo) = {}
          /\ pc = "done" => cbErr = NoErr /\ cbCount = 1
          /\ stat = newTimestamp
          /\ newTimestamp >= lastTimestamp
    /\ \A k \in DOMAIN runs :
          EmptyRun(runs[k]) =>
              /\ MessagesOf(runs[k].run) = {}
              /\ runs[k].wrote >= runs[k].last
              /\ k < Len(runs) => runs[k + 1].last = runs[k].wrote
    /\ \A k \in DOMAIN messages :
          /\ Footer(messages[k].message).tpl = "footer"
          /\ Footer(messages[k].message).ctx.totalFileCount > 0
          /\ ReportedFiles(messages[k].message) # {}
    /\ (pc = "deliver" \/ MessagesOf(runNo) # {}) => formatObj.totalFileCount > 0

\* two runs in a row found nothing new while the base held a file of an
\* included area, and the first of them moved the checkpoint forward
C7_Witness ==
    /\ pc = "done"
    /\ NothingNew
    /\ Len(runs) >= 2
    /\ LET k == Len(runs) - 1
       IN  /\ EmptyRun(runs[k]) /\ EmptyRun(runs[k + 1])
           /\ runs[k + 1].run = runs[k].run + 1
           /\ runs[k + 1].run = runNo
           /\ runs[k].wrote > runs[k].last
           /\ MessagesOf(runs[k].run) = {} /\ MessagesOf(runNo) = {}
    /\ \E f \in DOMAIN catalog : catalog[f].areaTag \in DOMAIN scan


\* ------------------------------------------------------------------- C8
\* buildMessages has rendered the report of the run
Rendered == msgBody # << >>

\* the fileNames of the entry blocks of area a, in the order of the body
RECURSIVE EntryNames(_, _)
EntryNames(body, a) ==
    IF body = << >> THEN << >>
    ELSE IF Head(body).tpl = "entry" /\ Head(body).ctx.areaName = a
         THEN <<Head(body).ctx.fileName>> \o EntryNames(Tail(body), a)
         ELSE EntryNames(Tail(body), a)

\* the first C of the N fileIds the query of area a yielded, or all N
FirstC(a) ==
    LET N == Len(scan[a].fileIds)
        C == options.maxFilesPerArea
    IN  IF C < N THEN [k \in 1..C |-> scan[a].fileIds[k]] ELSE scan[a].fileIds

Omitted(a) ==
    LET N == Len(scan[a].fileIds)
        C == options.maxFilesPerArea
    IN  IF C < N THEN N - C ELSE 0

\* the sections of area a in a body
SectionsOf(body, a) ==
    {k \in DOMAIN body : /\ body[k].tpl \in {"areaHeader", "entry", "areaFooter"}
                         /\ body[k].ctx.areaName = a}

\* C8: of the N files the query of an area yields, the first C in yielded
\* order are loaded and rendered, and areaRemainingFiles is N - C, when
\* C = maxFilesPerArea < N; all N are and areaRemainingFiles is 0 when C >= N.
C8_CapCorrect ==
    /\ \A a \in DOMAIN scan :
          scan[a].st = "done" =>
              /\ DOMAIN scan[a].files = DOMAIN FirstC(a)
              /\ \A i \in DOMAIN scan[a].files :
                    scan[a].files[i].fileId = FirstC(a)[i]
              /\ scan[a].remainingFiles = Omitted(a)
    /\ Rendered =>
          \A a \in DOMAIN scan :
              /\ EntryNames(msgBody, a) = FirstC(a)
              /\ \A k \in SectionsOf(msgBody, a) :
                    /\ msgBody[k].ctx.areaRemainingFiles = Omitted(a)
                    /\ msgBody[k].ctx.areaFileCount = Len(FirstC(a))

\* a report with an area the cap cut (C < N) and an area it did not (C >= N)
C8_Witness ==
    /\ Rendered
    /\ \E a, b \in DOMAIN scan :
          /\ Len(scan[a].fileIds) > options.maxFilesPerArea
          /\ Omitted(a) = 1
          /\ Len(EntryNames(msgBody, a)) = options.maxFilesPerArea
          /\ scan[b].fileIds # << >>
          /\ Len(scan[b].fileIds) <= options.maxFilesPerArea
          /\ EntryNames(msgBody, b) = scan[b].fileIds

\* ------------------------------------------------------------------- C9
RECURSIVE SumBytes(_)
SumBytes(fileIds) ==
    IF fileIds = << >> THEN 0
    ELSE catalog[Head(fileIds)].byte_size + SumBytes(Tail(fileIds))

RECURSIVE IncludedCount(_)
IncludedCount(areas) ==
    IF areas = << >> THEN 0
    ELSE Len(FirstC(Head(areas))) + IncludedCount(Tail(areas))

RECURSIVE IncludedBytes(_)
IncludedBytes(areas) ==
    IF areas = << >> THEN 0
    ELSE SumBytes(FirstC(Head(areas))) + IncludedBytes(Tail(areas))

\* C9: in the footer, totalFileCount is the number of files included over
\* all areas and totalFileBytes the sum of their byte sizes, the files the cap
\* left out counting for nothing; in the sections of an area, areaFileBytes
\* is the sum of the byte sizes of the files included for the area.
C9_TotalsConsistent ==
    Rendered =>
        /\ Footer(msgBody).tpl = "footer"
        /\ Footer(msgBody).ctx = formatObj
        /\ formatObj.totalFileCount = IncludedCount(allAreas)
        /\ formatObj.totalFileBytes = IncludedBytes(allAreas)
        /\ formatObj.totalFileCount =
              Cardinality({k \in DOMAIN msgBody : msgBody[k].tpl = "entry"})
        /\ \A a \in DOMAIN scan : \A k \in SectionsOf(msgBody, a) :
              msgBody[k].ctx.areaFileBytes = SumBytes(FirstC(a))

\* a report over two areas with files, one of them cut by the cap
C9_Witness ==
    /\ Rendered
    /\ \E a, b \in DOMAIN scan :
          /\ a # b
          /\ Omitted(a) > 0
          /\ FirstC(a) # << >>
          /\ FirstC(b) # << >>
          /\ formatObj.totalFileCount = Len(FirstC(a)) + Len(FirstC(b))
          /\ formatObj.totalFileBytes < SumBytes(scan[a].fileIds) + SumBytes(scan[b].fileIds)

\* ------------------------------------------------------------------ C10
\* the messages run r has persisted, in the order they were persisted
RunMessages(r) == SelectSeq(messages, LAMBDA m : m.run = r)

\* the areaTags of ms joined with ','
RECURSIVE JoinTags(_)
JoinTags(ms) ==
    IF ms = << >> THEN << >>
    ELSE IF Len(ms) = 1 THEN ms[1].areaTag
    ELSE ms[1].areaTag \o <<",">> \o JoinTags(Tail(ms))

WellFormed(ms) ==
    /\ \A k \in DOMAIN ms :
          /\ \A c \in DOMAIN ms[k].areaTag : ms[k].areaTag[c] # ","
          /\ ms[k].message = msgBody
          /\ ms[k].subject = [tpl |-> DefaultSubjectFormat, ctx |-> Footer(msgBody).ctx]
          /\ ms[k].toUserName = "All"
          /\ ms[k].fromUserName = "ENiGMA-Bot"
    /\ \A j, k \in DOMAIN ms : j # k => ms[j].areaTag # ms[k].areaTag

\* C10: a run with at least one included file whose persists all succeed
\* leaves one message per areaTag of args[0], in the order of the list, each
\* to another areaTag, all with the body that was rendered and with the
\* subject rendered from the totals the footer shows; while the delivery is
\* on, the messages persisted are those of the first areaTags of the list.
C10_OnePerDestination ==
    /\ (RunSucceeded /\ Rendered /\ formatObj.totalFileCount > 0) =>
          /\ WellFormed(RunMessages(runNo))
          /\ JoinTags(RunMessages(runNo)) = args[1]
    /\ pc = "deliver" =>
          LET ms == RunMessages(runNo)
              joined == JoinTags(ms)
          IN  /\ WellFormed(ms)
              /\ Len(ms) = delivIdx - 1
              /\ Len(joined) < Len(args[1])
              /\ joined = SubSeq(args[1], 1, Len(joined))
              /\ ms # << >> => args[1][Len(joined) + 1] = ","

\* a run has delivered its report to the two areaTags of its argument
C10_Witness ==
    /\ RunSucceeded
    /\ Len(RunMessages(runNo)) = 2
    /\ RunMessages(runNo)[1].areaTag = <<"fsx_bot">>
    /\ RunMessages(runNo)[2].areaTag = <<"agn_ads">>
    /\ RunMessages(runNo)[1].message = RunMessages(runNo)[2].message

\* ------------------------------------------------------------------ C11
\* how many times the run has called persistMessage
PersistCalls == Cardinality({k \in DOMAIN evlog : evlog[k] = "persistMessage"})

\* C11: when the persist of the message for the k-th areaTag fails, the run
\* calls back once with that error, persistMessage has been called k times and
\* never for an areaTag after the k-th, and the messages persisted for the
\* k - 1 areaTags before it are still in the message base.
C11_DeliveryFailFast ==
    (pc = "done" /\ cbErr = "PersistError") =>
        /\ cbCount = 1
        /\ delivIdx \in 1..Len(AreaTags)
        /\ PersistCalls = delivIdx
        /\ Len(RunMessages(runNo)) = delivIdx - 1
        /\ \A j \in 1..(delivIdx - 1) :
              /\ RunMessages(runNo)[j].areaTag = AreaTags[j]
              /\ RunMessages(runNo)[j].message = msgBody

\* the persist for the second of two areaTags has failed after the first
\* message was stored
C11_Witness ==
    /\ pc = "done"
    /\ cbErr = "PersistError"
    /\ Len(AreaTags) = 2
    /\ delivIdx = 2
    /\ Len(RunMessages(runNo)) = 1
    /\ RunMessages(runNo)[1].areaTag = <<"fsx_bot">>

\* ------------------------------------------------------------------ C12
\* a step of the run before the delivery has failed
FailedBeforeDelivery ==
    \/ tmplFailed
    \/ mapFailed
    \/ \E a \in DOMAIN scan : scan[a].st = "failed"
    \/ pc = "done" /\ cbErr \in {"EACCES", "SyntaxError", "General",
                                 "CatalogError", "LoadError"}

\* C12: once the options read or parse, a template read, an area query or a
\* file load has failed, the run has called back once with an error and has
\* neither called persistMessage nor stored a message; and persistMessage is
\* not called before every included area has been queried, all its files are
\* loaded and the body is rendered down to the footer, the body every message
\* of the run carries.
C12_NoPartialDelivery ==
    /\ FailedBeforeDelivery =>
          /\ pc = "done"
          /\ cbCount = 1
          /\ cbErr \in {"EACCES", "SyntaxError", "General", "CatalogError", "LoadError"}
          /\ PersistCalls = 0
          /\ MessagesOf(runNo) = {}
    /\ (PersistCalls > 0 \/ MessagesOf(runNo) # {}) =>
          /\ tmplPending = 0
          /\ DOMAIN scan = {allAreas[k] : k \in DOMAIN allAreas}
          /\ \A a \in DOMAIN scan : scan[a].st = "done" /\ scan[a].pending = {}
          /\ Rendered
          /\ Footer(msgBody).tpl = "footer"
          /\ \A k \in MessagesOf(runNo) : messages[k].message = msgBody

\* a file load of one area has failed after another area was loaded in full:
\* the run has called back with the error and nothing was delivered
C12_Witness ==
    /\ pc = "done"
    /\ cbErr = "LoadError"
    /\ \E a, b \in DOMAIN scan :
          /\ scan[a].st = "failed"
          /\ scan[b].st = "done"
          /\ Len(scan[b].fileIds) > 0
          /\ DOMAIN scan[b].files = DOMAIN scan[b].fileIds
    /\ MessagesOf(runNo) = {}
    /\ PersistCalls = 0

\* ------------------------------------------------------------------ C13
\* the current call was made with an empty args
EmptyArgs == runNo > 0 /\ Len(args) < 1

C13_State ==
    EmptyArgs =>
        /\ pc = "done"
        /\ cbCount = 1
        /\ cbErr = "MissingParam"
        /\ evlog = << >>
        /\ lastTimestamp = NoStat /\ newTimestamp = NoStat
        /\ scan = EmptyObj
        /\ tmplPending = 0
        /\ msgBody = << >>
        /\ MessagesOf(runNo) = {}

C13_Step ==
    EmptyArgs' => UNCHANGED <<stat, messages, runs>>

\* C13: a call with an empty args calls back once with MissingParam and does
\* nothing else: no getSystemStat or setSystemStat, findFiles, load or
\* persistMessage call is made, and the stat and the message base stay as
\* they were when the call was made.
C13_MissingParam == [] C13_State /\ [][C13_Step]_vars

\* a call with an empty args has called back while a checkpoint was set and
\* the base held a file newer than it, in an included area
C13_Witness ==
    /\ EmptyArgs
    /\ pc = "done"
    /\ cbErr = "MissingParam"
    /\ stat # NoStat
    /\ \E f \in DOMAIN catalog :
          /\ catalog[f].uploadTimestamp > stat
          /\ catalog[f].areaTag # "uploads"

\* ------------------------------------------------------------------ C14
\* the results of the areas whose files array is not empty, in order
NonEmptyAreas(allFileInfos) == SelectSeq(allFileInfos, LAMBDA ai : ai.files # << >>)

\* what header and the first n areas leave in formatObj and msgBody
RenderedUpTo(n) ==
    RenderAreas([formatObj |-> [boardName |-> BoardName,
                                nowTs |-> options.nowTs,
                                sinceTs |-> options.sinceTs,
                                totalFileCount |-> 0,
                                totalFileBytes |-> 0],
                 msgBody |-> <<stringFormat("header", [boardName |-> BoardName,
                                nowTs |-> options.nowTs,
                                sinceTs |-> options.sinceTs,
                                totalFileCount |-> 0,
                                totalFileBytes |-> 0])>>],
                SubSeq(AllAreasFiles, 1, n))

\* C14: an area whose query yields no new file has no areaHeader, entry or
\* areaFooter in the body, and the forEach step of the area leaves formatObj
\* (the totals and every other field) and msgBody as the areas before it left
\* them: the report is the one rendered from the areas with files alone.
C14_EmptyAreaOmitted ==
    Rendered =>
        /\ \A a \in DOMAIN scan :
              scan[a].files = << >> => SectionsOf(msgBody, a) = {}
        /\ \A n \in DOMAIN AllAreasFiles :
              AllAreasFiles[n].files = << >> => RenderedUpTo(n) = RenderedUpTo(n - 1)
        /\ Render(options, NonEmptyAreas(AllAreasFiles))
              = [formatObj |-> formatObj, msgBody |-> msgBody]

\* a report of two areas: the first has files, the second has none, and the
\* footer still shows the area fields of the first
C14_Witness ==
    /\ Rendered
    /\ Len(allAreas) = 2
    /\ scan[allAreas[1]].files # << >>
    /\ scan[allAreas[2]].files = << >>
    /\ scan[allAreas[2]].st = "done"
    /\ Footer(msgBody).ctx.areaName = allAreas[1]
    /\ Footer(msgBody).ctx.totalFileCount = Len(scan[allAreas[1]].files)

\* ------------------------------------------------------------------ C15
\* which section a block of the body is: its template and, for the sections
\* of an area, the area and the file
Section(block) ==
    [tpl |-> block.tpl,
     area |-> IF block.tpl \in {"areaHeader", "entry", "areaFooter"}
              THEN block.ctx.areaName ELSE "",
     file |-> IF block.tpl = "entry" THEN block.ctx.fileName ELSE 0]

\* the sections of the areas: for every area with an included file, in the
\* order of areas, areaHeader, one entry per included file in the order the
\* query yielded them, areaFooter
RECURSIVE AreaSections(_)
AreaSections(areas) ==
    IF areas = << >> THEN << >>
    ELSE LET a == Head(areas)
         IN  (IF FirstC(a) = << >> THEN << >>
              ELSE <<[tpl |-> "areaHeader", area |-> a, file |-> 0]>>
                   \o [k \in DOMAIN FirstC(a) |->
                          [tpl |-> "entry", area |-> a, file |-> FirstC(a)[k]]]
                   \o <<[tpl |-> "areaFooter", area |-> a, file |-> 0]>>)
             \o AreaSections(Tail(areas))

\* C15: the body is the header once, then for each area with at least one
\* included file, in the order of getSortedAvailableFileAreas, its areaHeader,
\* one entry per included file in the order the query yielded them and its
\* areaFooter, then the footer once, with nothing else in between.
C15_RenderOrder ==
    Rendered =>
        /\ allAreas = FilterAreas(AvailableFileAreas, DefaultAreaTagsRegEx)
        /\ [k \in DOMAIN msgBody |-> Section(msgBody[k])]
              = <<[tpl |-> "header", area |-> "", file |-> 0]>>
                \o AreaSections(allAreas)
                \o <<[tpl |-> "footer", area |-> "", file |-> 0]>>

\* a report of two areas with files, one of them with two entries
C15_Witness ==
    /\ Rendered
    /\ Len(allAreas) = 2
    /\ Len(FirstC(allAreas[1])) + Len(FirstC(allAreas[2])) = 3
    /\ FirstC(allAreas[1]) # << >>
    /\ FirstC(allAreas[2]) # << >>
    /\ Len(msgBody) = 9

\* ------------------------------------------------------------------ C16
\* the sum of the byte sizes of the files of area a whose load has come back
RECURSIVE LoadedBytes(_, _)
LoadedBytes(a, loaded) ==
    IF loaded = {} THEN 0
    ELSE LET i == CHOOSE j \in loaded : TRUE
         IN  catalog[scan[a].fileIds[i]].byte_size + LoadedBytes(a, loaded \ {i})

\* what the outer async.map yields, computed from the fileIds the queries
\* yielded and from nothing else
ExpectedAreasFiles ==
    [k \in DOMAIN allAreas |->
        [areaInfo |-> allAreas[k],
         files |-> [i \in DOMAIN FirstC(allAreas[k]) |-> FileInfo(FirstC(allAreas[k])[i])],
         areaFileBytes |-> SumBytes(FirstC(allAreas[k])),
         remainingFiles |-> Omitted(allAreas[k])]]

\* the catalog is as every query of the run saw it
QueriesSawCatalog ==
    \A a \in DOMAIN scan :
        scan[a].fileIds = findFiles(catalog, [newerThanTimestamp |-> lastTimestamp,
                                              areaTag |-> a], Len(catalog))

\* the result of the areas computed from the catalog and the checkpoint
AreasFilesOf(cat, last, cap) ==
    [k \in DOMAIN allAreas |->
        LET ids == findFiles(cat, [newerThanTimestamp |-> last,
                                   areaTag |-> allAreas[k]], Len(cat))
            inc == Slice(ids, cap)
        IN  [areaInfo |-> allAreas[k],
             files |-> [i \in DOMAIN inc |-> FileInfo(inc[i])],
             areaFileBytes |-> SumBytes(inc),
             remainingFiles |-> RemainingFiles(ids, cap)]]

\* C16: in whatever order the findFiles and load callbacks come in, the
\* results of an area depend only on which callbacks have come in: files[i]
\* is the file of the i-th fileId and areaFileBytes the sum over the loaded
\* files; the rendered report is the one rendered from the yielded fileIds in
\* the order of allAreas, and with the catalog as the queries saw it, the
\* one rendered from the catalog, the checkpoint and the options.
C16_Deterministic ==
    /\ \A a \in DOMAIN scan :
          scan[a].st \in {"loading", "done"} =>
              /\ DOMAIN scan[a].files = DOMAIN FirstC(a) \ scan[a].pending
              /\ \A i \in DOMAIN scan[a].files :
                    scan[a].files[i] = FileInfo(scan[a].fileIds[i])
              /\ scan[a].areaFileBytes = LoadedBytes(a, DOMAIN scan[a].files)
    /\ Rendered =>
          /\ AllAreasFiles = ExpectedAreasFiles
          /\ Render(options, ExpectedAreasFiles)
                = [formatObj |-> formatObj, msgBody |-> msgBody]
          /\ QueriesSawCatalog =>
                Render(options, AreasFilesOf(catalog, lastTimestamp,
                                             options.maxFilesPerArea))
                    = [formatObj |-> formatObj, msgBody |-> msgBody]

\* the second area is done while the first still waits for the load of its
\* first file, the load of its second file being back already
C16_Witness ==
    /\ pc = "scan"
    /\ Len(allAreas) = 2
    /\ scan[allAreas[1]].st = "loading"
    /\ 1 \in scan[allAreas[1]].pending
    /\ 2 \in DOMAIN scan[allAreas[1]].files
    /\ scan[allAreas[2]].st = "done"
    /\ scan[allAreas[2]].files # << >>

\* ------------------------------------------------------------------ C17
\* the entry blocks among the first n blocks of a body
EntriesUpTo(body, n) == {j \in 1..n : body[j].tpl = "entry"}

\* the sum of the fileSize of the entry blocks js of a body
RECURSIVE EntryBytes(_, _)
EntryBytes(body, js) ==
    IF js = {} THEN 0
    ELSE LET j == CHOOSE x \in js : TRUE
         IN  body[j].ctx.fileSize + EntryBytes(body, js \ {j})

\* the areaFooter that closes the area block k of a body is in
AreaEnd(body, k) ==
    CHOOSE j \in k..Len(body) :
        /\ body[j].tpl = "areaFooter"
        /\ \A i \in k..(j - 1) : body[i].tpl # "areaFooter"

\* C17 as stated: the totals an entry block shows count that entry and the
\* entries rendered before it, and none rendered after it: the k-th entry of
\* the report shows totalFileCount = k.
C17_TotalsPerEntry ==
    Rendered =>
        \A k \in DOMAIN msgBody :
            msgBody[k].tpl = "entry" =>
                /\ msgBody[k].ctx.totalFileCount
                      = Cardinality(EntriesUpTo(msgBody, k))
                /\ msgBody[k].ctx.totalFileBytes
                      = EntryBytes(msgBody, EntriesUpTo(msgBody, k))

\* C17, amended: the totals are added to once per area, before its
\* areaHeader: the areaHeader, every entry and the areaFooter of an area show
\* the count and the bytes of all included files of that area and of the areas
\* before it, and of no later area; the header shows 0 and the footer all;
\* the totals never decrease along the body.
C17_TotalsPerArea ==
    Rendered =>
        /\ msgBody[1].ctx.totalFileCount = 0
        /\ msgBody[1].ctx.totalFileBytes = 0
        /\ \A k \in DOMAIN msgBody :
              msgBody[k].tpl \in {"areaHeader", "entry", "areaFooter"} =>
                  /\ msgBody[k].ctx.totalFileCount
                        = Cardinality(EntriesUpTo(msgBody, AreaEnd(msgBody, k)))
                  /\ msgBody[k].ctx.totalFileBytes
                        = EntryBytes(msgBody, EntriesUpTo(msgBody, AreaEnd(msgBody, k)))
        /\ Footer(msgBody).ctx.totalFileCount
              = Cardinality(EntriesUpTo(msgBody, Len(msgBody)))
        /\ Footer(msgBody).ctx.totalFileBytes
              = EntryBytes(msgBody, EntriesUpTo(msgBody, Len(msgBody)))
        /\ \A k \in 1..(Len(msgBody) - 1) :
              /\ msgBody[k].ctx.totalFileCount <= msgBody[k + 1].ctx.totalFileCount
              /\ msgBody[k].ctx.totalFileBytes <= msgBody[k + 1].ctx.totalFileBytes

\* the first of two entries of an area shows a count that has the second in
\* it, and another area with a file follows
C17_Witness ==
    /\ Rendered
    /\ \E k \in 1..(Len(msgBody) - 1) :
          /\ msgBody[k].tpl = "entry"
          /\ msgBody[k + 1].tpl = "entry"
          /\ msgBody[k].ctx.totalFileCount = Cardinality(EntriesUpTo(msgBody, k)) + 1
          /\ \E j \in (k + 2)..Len(msgBody) : msgBody[j].tpl = "areaHeader"

\* ------------------------------------------------------------------ C18
\* the run of summary r found a checkpoint, wrote its own and then failed in
\* an area query, a file load or a persist
FailedAfterAdvance(r) ==
    r.last # NoStat /\ r.err \in {"CatalogError", "LoadError", "PersistError"}

\* file f was uploaded in the window (r.last, r.wrote] of the run of summary r
InWindowOf(r, f) ==
    r.last < catalog[f].uploadTimestamp /\ catalog[f].uploadTimestamp <= r.wrote

\* C18: a run that fails in an area query, a file load or a persist leaves
\* the stat at the time it wrote, which is what the next run to read the stat
\* finds; and no later run finds, renders or delivers a file uploaded in the
\* window (old checkpoint, new checkpoint] of the failed run.
C18_SilentSkip ==
    /\ (pc = "done" /\ cbErr \in {"CatalogError", "LoadError", "PersistError"}) =>
          /\ lastTimestamp # NoStat
          /\ stat = newTimestamp
          /\ newTimestamp >= lastTimestamp
          /\ runs # << >>
          /\ runs[Len(runs)] = [run |-> runNo, err |-> cbErr, last |-> lastTimestamp,
                                wrote |-> newTimestamp,
                                found |-> runs[Len(runs)].found]
    /\ \A k \in DOMAIN runs :
          FailedAfterAdvance(runs[k]) =>
              /\ k < Len(runs) => runs[k + 1].last = runs[k].wrote
              /\ k = Len(runs) =>
                    \/ stat = runs[k].wrote
                    \/ /\ runNo > runs[k].run
                       /\ evlog # << >>
                       /\ lastTimestamp = runs[k].wrote
              /\ \A f \in DOMAIN catalog :
                    InWindowOf(runs[k], f) =>
                        /\ \A m \in DOMAIN messages :
                              messages[m].run > runs[k].run =>
                                  f \notin ReportedFiles(messages[m].message)
                        /\ runNo > runs[k].run =>
                              /\ f \notin ReportedFiles(msgBody)
                              /\ \A a \in DOMAIN scan :
                                    \A i \in DOMAIN scan[a].fileIds :
                                        scan[a].fileIds[i] # f

\* a run failed after it moved the checkpoint past a file of an included
\* area that no message holds, and a later run has read that checkpoint,
\* queried every area and called back without an error
C18_Witness ==
    /\ RunSucceeded
    /\ NothingNew
    /\ \E k \in DOMAIN runs :
          /\ FailedAfterAdvance(runs[k])
          /\ runs[k].run < runNo
          /\ runs[k].wrote > runs[k].last
          /\ lastTimestamp = runs[k].wrote
          /\ \E f \in DOMAIN catalog :
                /\ InWindowOf(runs[k], f)
                /\ catalog[f].areaTag \in DOMAIN scan
                /\ \A m \in DOMAIN messages : f \notin ReportedFiles(messages[m].message)

\* ------------------------------------------------------------------ C19
\* what the last run that wrote the stat wrote
LastWrote == IF runs = << >> THEN NoStat ELSE runs[Len(runs)].wrote

\* the run has failed in loadOptions or in readTemplates
EarlyFailure ==
    /\ pc = "done"
    /\ \/ cbErr \in {"EACCES", "SyntaxError"}
       \/ cbErr = "General" /\ evlog = << >>

\* the call before this one failed in loadOptions or in readTemplates
PrevFailedEarly ==
    /\ runNo >= 2
    /\ prevErr \in {"EACCES", "SyntaxError", "General"}
    /\ \A k \in DOMAIN runs : runs[k].run # runNo - 1

\* what the runs before the current one left in the stat
WroteBefore ==
    LET prior == SelectSeq(runs, LAMBDA r : r.run < runNo)
    IN  IF prior = << >> THEN NoStat ELSE prior[Len(prior)].wrote

\* C19 as stated: the successful run that follows a run that failed in
\* loadOptions or readTemplates reports every file of the window its queries
\* yield.
C19_WindowReportedInFull ==
    (RunSucceeded /\ PrevFailedEarly) =>
        \A a \in DOMAIN scan : \A i \in DOMAIN scan[a].fileIds :
            InWindow(catalog[scan[a].fileIds[i]].uploadTimestamp)
                => Delivered(scan[a].fileIds[i])

\* C19, amended: up to findNewFiles a run neither reads nor writes the stat,
\* so a run that fails in loadOptions or readTemplates leaves the stat at what
\* the last run to write it wrote; the run after it reads that checkpoint,
\* its queries yield the files newer than it, and if it succeeds it delivers
\* every yielded file of its window that is among the first maxFilesPerArea
\* of its area.
C19_EarlyFailureKeepsCheckpoint ==
    /\ evlog = << >> => stat = LastWrote
    /\ EarlyFailure =>
          /\ evlog = << >>
          /\ lastTimestamp = NoStat /\ newTimestamp = NoStat
          /\ scan = EmptyObj
          /\ MessagesOf(runNo) = {}
          /\ \A k \in DOMAIN runs : runs[k].run < runNo
    /\ (PrevFailedEarly /\ evlog # << >>) => lastTimestamp = WroteBefore
    /\ (RunSucceeded /\ PrevFailedEarly) =>
          \A a \in DOMAIN scan :
              /\ \E n \in 0..Len(catalog) :
                    scan[a].fileIds =
                        findFiles(catalog, [newerThanTimestamp |-> WroteBefore,
                                            areaTag |-> a], n)
              /\ \A i \in DOMAIN scan[a].fileIds :
                    (i <= options.maxFilesPerArea
                       /\ InWindow(catalog[scan[a].fileIds[i]].uploadTimestamp))
                        => Delivered(scan[a].fileIds[i])

\* after a run that could not parse its options, the next run has read the
\* checkpoint the failed run left alone and delivered a file uploaded after it
C19_Witness ==
    /\ RunSucceeded
    /\ PrevFailedEarly
    /\ prevErr = "SyntaxError"
    /\ lastTimestamp = WroteBefore
    /\ \E a \in DOMAIN scan :
          /\ scan[a].fileIds # << >>
          /\ InWindow(catalog[scan[a].fileIds[1]].uploadTimestamp)
          /\ Delivered(scan[a].fileIds[1])

\* ------------------------------------------------------------------ C20
\* a callback of the run comes in, or findNewFiles, which performs no I/O of
\* its own, runs
CallbackStep ==
    \/ \E file \in OptionsFiles : loadOptions(file)
    \/ \E err \in {NoErr, "ENOENT"} : readTemplates(err)
    \/ findNewFiles
    \/ \E a \in DOMAIN scan, err \in {NoErr, "CatalogError"} : findFilesDone(a, err)
    \/ \E a \in DOMAIN scan, i \in 1..MaxFiles, err \in {NoErr, "LoadError"} :
          loadDone(a, i, err)
    \/ \E err \in {NoErr, "PersistError"} : persistDone(err)

\* the step that leaves the buildMessages task: buildMessages is the only
\* action that takes pc from "buildMessages" to "deliver" or "done"
BuildStep == pc = "buildMessages" /\ pc' \in {"deliver", "done"}

\* the scheduler, the clock and the uploads as in Next, over the first
\* MaxFairRuns calls
FairNext ==
    \/ Tick
    \/ \E areaTag \in {AvailableFileAreas[k] : k \in DOMAIN AvailableFileAreas} :
          Upload(areaTag)
    \/ \E a \in ArgChoices : runNo < MaxFairRuns /\ latestFilesAnnounceEvent(a)
    \/ CallbackStep
    \/ buildMessages

\* every callback that is out comes in and every task that is due runs: the
\* event loop of node leaves no callback and no waterfall task waiting forever
FairSpec == Init /\ [][FairNext]_vars /\ WF_vars(CallbackStep) /\ WF_pc(BuildStep)

\* the call has been made and cb has not been called yet
InRun == pc \notin {"idle", "done"}

C20_Once ==
    /\ cbCount <= 1
    /\ cbCount = (IF pc = "done" THEN 1 ELSE 0)
    /\ (mapFailed \/ tmplFailed) => cbCount = 1 /\ cbErr # NoErr
    /\ (pc = "done" /\ cbErr = NoErr) =>
          /\ ~tmplFailed /\ ~mapFailed
          /\ \A a \in DOMAIN scan : scan[a].st = "done"
          /\ Rendered
          /\ \/ formatObj.totalFileCount = 0 /\ MessagesOf(runNo) = {}
             \/ Len(RunMessages(runNo)) = Len(AreaTags)

\* C20: cb is called at most once per call, also when several queries or
\* loads of the run fail; it has been called exactly when the run is done,
\* without an error only if every step succeeded; and every call that is made
\* gets to call cb, after which the callbacks still out come in.
C20_CallbackExactlyOnce ==
    /\ [] C20_Once
    /\ InRun ~> (pc = "done" /\ cbCount = 1)
    /\ Stragglers ~> ~Stragglers

\* both areas of a run have failed and all callbacks are in: cb was called once
C20_Witness ==
    /\ pc = "done"
    /\ cbCount = 1
    /\ cbErr \in {"CatalogError", "LoadError"}
    /\ Len(allAreas) = 2
    /\ scan[allAreas[1]].st = "failed"
    /\ scan[allAreas[2]].st = "failed"
    /\ ~Stragglers

====
